---- MODULE Spec2Model ----
(***************************************************************************)
(* Part III notebook "Getting started with Tensorflow", executed top to    *)
(* bottom.  Two copies of the notebook exist (src/unnamed/part_000 and     *)
(* src/interactive-experiments/Part-III-tensorflow-introduction.ipynb);    *)
(* they differ in the number of training iterations and the learning rate. *)
(*                                                                         *)
(* float32 / float64 values are modelled in fixed point: the integer v     *)
(* stands for the real number v / Scale, products and the learning-rate    *)
(* step are rounded to the nearest grid point.  A tensor value is a record *)
(* [shape, data] with data in row-major order, as the framework stores it. *)
(***************************************************************************)
EXTENDS Integers, Sequences, FiniteSets, TLC

\* ------------------------------------------------------------- bounds ----
Scale == 2       \* grid points per unit (fixed-point resolution)
MaxDraw == 3     \* np.random.randn: largest magnitude of a drawn number, in grid points
MaxSeed == 40    \* np.random: the generator's initial state is one of 0..MaxSeed
MaxNorm == 2     \* layer comparison: L1 norm of the weights and biases, in grid points
MaxInput == 1    \* layer comparison: L1 norm of the fed input, in grid points

\* -------------------------------------------------- program constants ----
Rows == 3                    \* np.random.randn(3,2), randn(3), shape=[3]
Cols == 2                    \* np.random.randn(3,2), randn(2), shape=(2,)
BatchedWidth == 5            \* tf.placeholder(shape=[None, 5])
DenseUnits == 3              \* tf.layers.dense(..., 3, ...)
ConstantScalarValue == 5     \* tf.constant(5.0)
RangePart000 == 150          \* for i in range(150)
RangeInteractive == 15       \* for i in range(15)
LrPercentPart000 == 10       \* GradientDescentOptimizer(0.1)
LrPercentInteractive == 7    \* GradientDescentOptimizer(0.07)
LrDen == 100                 \* denominator of the learning rates above
UnknownDim == -1             \* None / -1 in a shape

Notebooks == {"part_000", "interactive"}
RangeN(n) == IF n = "part_000" THEN RangePart000 ELSE RangeInteractive
LearningRate(n) == IF n = "part_000" THEN LrPercentPart000 ELSE LrPercentInteractive

\* ------------------------------------------------ fixed-point numbers ----
\* int -> float conversion (np.asarray([1, 2]) fed to a float32 placeholder)
ToFloat(n) == n * Scale
\* nearest integer to n / d (d > 0), halves rounded up
Round(n, d) == (2 * n + d) \div (2 * d)
\* product of two grid values
Mul(a, b) == Round(a * b, Scale)
Max(a, b) == IF a >= b THEN a ELSE b

\* ------------------------------------------------------------ shapes ----
RECURSIVE Prod(_)
Prod(s) == IF s = <<>> THEN 1 ELSE Head(s) * Prod(Tail(s))

RECURSIVE ProdKnown(_)
ProdKnown(s) ==
    IF s = <<>> THEN 1
    ELSE (IF Head(s) = UnknownDim THEN 1 ELSE Head(s)) * ProdKnown(Tail(s))

NumUnknown(s) == Cardinality({k \in DOMAIN s : s[k] = UnknownDim})

\* tf.reshape: a -1 entry of the target is inferred from the element count
ResolveShape(n, target) ==
    [k \in DOMAIN target |->
        IF target[k] = UnknownDim THEN n \div ProdKnown(target) ELSE target[k]]

ReshapeOK(inshape, target) ==
    /\ NumUnknown(inshape) = 0
    /\ NumUnknown(target) <= 1
    /\ ProdKnown(target) > 0
    /\ Prod(ResolveShape(Prod(inshape), target)) = Prod(inshape)

MatMulOK(a, b) == Len(a) = 2 /\ Len(b) = 2 /\ a[2] = b[1]
MatMulShape(a, b) == <<a[1], b[2]>>

\* elementwise binary ops: equal shapes, or a vector against the last axis
BroadcastOK(a, b) ==
    \/ a = b
    \/ Len(b) = 1 /\ Len(a) >= 1 /\ a[Len(a)] = b[1]

\* a fed array fits a placeholder when every known dimension agrees
ShapeFits(actual, declared) ==
    /\ Len(actual) = Len(declared)
    /\ \A k \in DOMAIN declared :
          declared[k] = UnknownDim \/ declared[k] = actual[k]

\* ------------------------------------------------------ tensor values ----
\* shape and data are sequences (tuples)
Tensor(shape, data) == [shape |-> <<>> \o shape, data |-> <<>> \o data]
Vec(data) == Tensor(<<Len(data)>>, data)

ReshapeT(t, target) ==
    Tensor(ResolveShape(Len(t.data), target), t.data)

RECURSIVE DotFrom(_, _, _, _, _)
\* sum over t = k..inner of a[r,t] * b[t,c]
DotFrom(a, b, r, c, k) ==
    LET inner == a.shape[2]
        n     == b.shape[2]
    IN IF k > inner THEN 0
       ELSE Mul(a.data[(r - 1) * inner + k], b.data[(k - 1) * n + c])
            + DotFrom(a, b, r, c, k + 1)

RECURSIVE DotFromColumnMajor(_, _, _, _, _)
\* slip: the left operand read as if stored column by column
DotFromColumnMajor(a, b, r, c, k) ==
    LET inner == a.shape[2]
        m     == a.shape[1]
        n     == b.shape[2]
    IN IF k > inner THEN 0
       ELSE Mul(a.data[(k - 1) * m + r], b.data[(k - 1) * n + c])
            + DotFromColumnMajor(a, b, r, c, k + 1)

MatMulColumnMajor(a, b) ==
    LET m == a.shape[1]
        n == b.shape[2]
    IN Tensor(<<m, n>>,
              [e \in 1..(m * n) |->
                  DotFromColumnMajor(a, b, ((e - 1) \div n) + 1, ((e - 1) % n) + 1, 1)])

MatMulT(a, b) ==
    LET m == a.shape[1]
        n == b.shape[2]
    IN Tensor(<<m, n>>,
              [e \in 1..(m * n) |->
                  DotFrom(a, b, ((e - 1) \div n) + 1, ((e - 1) % n) + 1, 1)])

TransposeT(a) ==
    LET m == a.shape[1]
        n == a.shape[2]
    IN Tensor(<<n, m>>,
              [e \in 1..(m * n) |->
                  a.data[((e - 1) % m) * n + ((e - 1) \div m) + 1]])

\* index into the (possibly broadcast) second operand
BIndex(a, b, e) == IF a.shape = b.shape THEN e ELSE ((e - 1) % b.shape[1]) + 1

AddT(a, b) == Tensor(a.shape, [e \in DOMAIN a.data |-> a.data[e] + b.data[BIndex(a, b, e)]])
SubT(a, b) == Tensor(a.shape, [e \in DOMAIN a.data |-> a.data[e] - b.data[BIndex(a, b, e)]])
NegT(a) == Tensor(a.shape, [e \in DOMAIN a.data |-> 0 - a.data[e]])
ReluT(a) == Tensor(a.shape, [e \in DOMAIN a.data |-> Max(a.data[e], 0)])
SquareT(a) == Tensor(a.shape, [e \in DOMAIN a.data |-> Mul(a.data[e], a.data[e])])

RECURSIVE SumSeq(_)
SumSeq(s) == IF s = <<>> THEN 0 ELSE Head(s) + SumSeq(Tail(s))
ReduceSumT(a) == Tensor(<<>>, <<SumSeq(a.data)>>)

\* ------------------------------------------------- computation graph ----
\* A node of the graph: the op that produces it, the nodes it reads, its
\* static shape, the op's integer attributes (declared / target shape,
\* learning rate), the variables the op assigns and, for a constant, its value.
\* what a fetched op (not a tensor) returns, and the value of an unbound name: None
NoValue == Tensor(<<>>, <<>>)

Node(op, inputs, shape, attr, targets, value) ==
    [op |-> op, inputs |-> inputs, shape |-> shape, attr |-> attr, targets |-> targets,
     value |-> value]

Range(s) == {s[k] : k \in DOMAIN s}

InputsKnown(nodes, inputs) == \A k \in DOMAIN inputs : inputs[k] \in DOMAIN nodes

\* static shape check done by the framework when an op is added
OpShapeOK(nodes, op, inputs, attr) ==
    CASE op = "Reshape" -> ReshapeOK(nodes[inputs[1]].shape, attr)
      [] op = "MatMul"  -> MatMulOK(nodes[inputs[1]].shape, nodes[inputs[2]].shape)
      [] op \in {"Add", "Sub"} ->
            BroadcastOK(nodes[inputs[1]].shape, nodes[inputs[2]].shape)
      [] OTHER -> TRUE

\* static shape inference
OpShape(nodes, op, inputs, attr) ==
    CASE op \in {"Const", "Variable", "Placeholder"} -> attr
      [] op = "Reshape" -> ResolveShape(Prod(nodes[inputs[1]].shape), attr)
      [] op = "MatMul"  -> MatMulShape(nodes[inputs[1]].shape, nodes[inputs[2]].shape)
      [] op \in {"Add", "Sub", "Relu", "Square"} -> nodes[inputs[1]].shape
      [] OTHER -> <<>>

\* g = [nodes, order, ok]: the graph under construction (its nodes by name and
\* their names in creation order) and whether every op so far was accepted.
\* Once an op is rejected the cell raises and adds nothing more.
AddOp(g, name, op, inputs, attr, targets) ==
    IF ~g.ok THEN g
    ELSE IF ~InputsKnown(g.nodes, inputs) \/ ~OpShapeOK(g.nodes, op, inputs, attr)
         THEN [nodes |-> g.nodes, order |-> g.order, ok |-> FALSE]
         ELSE [nodes |-> g.nodes @@
                  (name :> Node(op, inputs, OpShape(g.nodes, op, inputs, attr), attr, targets, NoValue)),
               order |-> Append(g.order, name),
               ok |-> TRUE]

\* tf.constant(value): the node holds the value, its shape is the value's
AddConst(g, name, value) ==
    IF ~g.ok THEN g
    ELSE [nodes |-> g.nodes @@ (name :> Node("Const", <<>>, value.shape, value.shape, <<>>, value)),
          order |-> Append(g.order, name),
          ok |-> TRUE]

Start(gr) == [nodes |-> gr.nodes, order |-> gr.order, ok |-> TRUE]
Built(g) == [nodes |-> g.nodes, order |-> g.order]

\* the variables present in the graph (tf.global_variables / trainable variables)
RECURSIVE SetToSeq(_)
SetToSeq(S) ==
    IF S = {} THEN <<>>
    ELSE LET x == CHOOSE y \in S : TRUE IN <<x>> \o SetToSeq(S \ {x})

\* slip: only the first variable is collected
GlobalVariablesMatrixOnly(nodes) ==
    {n \in DOMAIN nodes : nodes[n].op = "Variable" /\ n = "variable_matrix"}

GlobalVariables(nodes) == {n \in DOMAIN nodes : nodes[n].op = "Variable"}

\* ---- the graph-construction cells ----
\* constant_scalar = tf.constant(5.0)
BuildConstantScalar(g) == AddConst(g, "constant_scalar", Tensor(<<>>, <<ToFloat(ConstantScalarValue)>>))

\* constant_matrix = tf.constant(np.random.randn(3,2))
BuildConstantMatrix(g, array) == AddConst(g, "constant_matrix", array)

\* variable_matrix = tf.Variable(np.random.randn(3,2), ...); variable_vector = tf.Variable(np.random.randn(3), ...)
BuildVariables(g) ==
    LET g1 == AddOp(g, "variable_matrix", "Variable", <<>>, <<Rows, Cols>>, <<>>)
    IN AddOp(g1, "variable_vector", "Variable", <<>>, <<Rows>>, <<>>)

\* slip: the input reshaped into a row, [1, 2]
InputRowShape == <<1, Cols>>

\* tf.reshape(placeholder_input, [2, 1])
InputColumnShape == <<Cols, 1>>
\* tf.reshape(tf.matmul(...), [3])
ProductVectorShape == <<Rows>>

\* placeholder_input, matrix_product, vector_sum, relu_vector
BuildLayer(g) ==
    LET g1 == AddOp(g, "placeholder_input", "Placeholder", <<>>, <<Cols>>, <<>>)
        g2 == AddOp(g1, "reshape_input", "Reshape", <<"placeholder_input">>, InputColumnShape, <<>>)
        g3 == AddOp(g2, "matmul", "MatMul", <<"variable_matrix", "reshape_input">>, <<>>, <<>>)
        g4 == AddOp(g3, "matrix_product", "Reshape", <<"matmul">>, ProductVectorShape, <<>>)
        g5 == AddOp(g4, "vector_sum", "Add", <<"matrix_product", "variable_vector">>, <<>>, <<>>)
    IN AddOp(g5, "relu_vector", "Relu", <<"vector_sum">>, <<>>, <<>>)

\* tf.global_variables_initializer(): one op that assigns its initial value
\* to every variable the graph holds when the op is created
BuildInitializer(g) ==
    AddOp(g, "init", "InitVariables", <<>>, <<>>, SetToSeq(GlobalVariables(g.nodes)))

\* slip: the optimizer is created but minimize is never called
BuildTrainingNoStep(g, lr) ==
    LET g1 == AddOp(g, "placeholder_output", "Placeholder", <<>>, <<Rows>>, <<>>)
        g2 == AddOp(g1, "difference", "Sub", <<"relu_vector", "placeholder_output">>, <<>>, <<>>)
        g3 == AddOp(g2, "square", "Square", <<"difference">>, <<>>, <<>>)
    IN AddOp(g3, "loss", "Sum", <<"square">>, <<>>, <<>>)

\* placeholder_output, loss, optimizer, gradient_descent_step
BuildTraining(g, lr) ==
    LET g1 == AddOp(g, "placeholder_output", "Placeholder", <<>>, <<Rows>>, <<>>)
        g2 == AddOp(g1, "difference", "Sub", <<"relu_vector", "placeholder_output">>, <<>>, <<>>)
        g3 == AddOp(g2, "square", "Square", <<"difference">>, <<>>, <<>>)
        g4 == AddOp(g3, "loss", "Sum", <<"square">>, <<>>, <<>>)
    IN AddOp(g4, "gradient_descent_step", "ApplyGradientDescent", <<"loss">>,
             <<lr, LrDen>>, SetToSeq(GlobalVariables(g4.nodes)))

\* batched_vectors = tf.placeholder(dtype=tf.float32, shape=[None, 5])
BuildBatched(g) ==
    AddOp(g, "batched_vectors", "Placeholder", <<>>, <<UnknownDim, BatchedWidth>>, <<>>)

\* tf.reshape(placeholder_input, [-1, 2])
DenseInputShape == <<UnknownDim, Cols>>

\* slip: the dense layer built without its bias (use_bias=False)
BuildDenseNoBias(g) ==
    LET g1 == AddOp(g, "dense_input", "Reshape", <<"placeholder_input">>, DenseInputShape, <<>>)
        w  == IF g1.ok THEN g1.nodes["dense_input"].shape[2] ELSE 0
        g2 == AddOp(g1, "dense/kernel", "Variable", <<>>, <<w, DenseUnits>>, <<>>)
        g3 == AddOp(g2, "dense/bias", "Variable", <<>>, <<DenseUnits>>, <<>>)
        g4 == AddOp(g3, "dense/MatMul", "MatMul", <<"dense_input", "dense/kernel">>, <<>>, <<>>)
    IN AddOp(g4, "alternative_relu_vector", "Relu", <<"dense/MatMul">>, <<>>, <<>>)

\* tf.layers.dense(inputs, units, activation=tf.nn.relu): kernel of shape
\* (input width, units), bias of shape (units,), relu(inputs . kernel + bias)
BuildDense(g) ==
    LET g1 == AddOp(g, "dense_input", "Reshape", <<"placeholder_input">>, DenseInputShape, <<>>)
        w  == IF g1.ok THEN g1.nodes["dense_input"].shape[2] ELSE 0
        g2 == AddOp(g1, "dense/kernel", "Variable", <<>>, <<w, DenseUnits>>, <<>>)
        g3 == AddOp(g2, "dense/bias", "Variable", <<>>, <<DenseUnits>>, <<>>)
        g4 == AddOp(g3, "dense/MatMul", "MatMul", <<"dense_input", "dense/kernel">>, <<>>, <<>>)
        g5 == AddOp(g4, "dense/BiasAdd", "Add", <<"dense/MatMul", "dense/bias">>, <<>>, <<>>)
    IN AddOp(g5, "alternative_relu_vector", "Relu", <<"dense/BiasAdd">>, <<>>, <<>>)

\* --------------------------------------------------------- session.run ----
IsOp(nd) == nd.op \in {"InitVariables", "ApplyGradientDescent"}

RECURSIVE NeededFrom(_, _, _)
\* sweep the creation order backwards from position k: a node already needed
\* makes its inputs needed
NeededFrom(gr, k, acc) ==
    IF k = 0 THEN acc
    ELSE LET n == gr.order[k]
         IN NeededFrom(gr, k - 1,
                IF n \in acc THEN acc \cup Range(gr.nodes[n].inputs) ELSE acc)

\* the fetched nodes and every node they are computed from
Needed(gr, fetches) == NeededFrom(gr, Len(gr.order), Range(fetches))

PlaceholdersOf(gr, fetches) ==
    {n \in Needed(gr, fetches) : gr.nodes[n].op = "Placeholder"}

\* variables whose value the run reads or updates
VariablesOf(gr, fetches) ==
    LET need == Needed(gr, fetches)
    IN {n \in need : gr.nodes[n].op = "Variable"}
       \cup UNION {Range(gr.nodes[n].targets) :
                     n \in {m \in need : gr.nodes[m].op = "ApplyGradientDescent"}}

\* value of one tensor given the values of its inputs
EvalNode(nd, n, vals, feed, table) ==
    CASE nd.op = "Placeholder" -> feed[n]
      [] nd.op = "Const"    -> nd.value
      [] nd.op = "Variable" -> vals[n]
      [] nd.op = "Reshape"  -> ReshapeT(table[nd.inputs[1]], nd.attr)
      [] nd.op = "MatMul"   -> MatMulT(table[nd.inputs[1]], table[nd.inputs[2]])
      [] nd.op = "Add"      -> AddT(table[nd.inputs[1]], table[nd.inputs[2]])
      [] nd.op = "Sub"      -> SubT(table[nd.inputs[1]], table[nd.inputs[2]])
      [] nd.op = "Relu"     -> ReluT(table[nd.inputs[1]])
      [] nd.op = "Square"   -> SquareT(table[nd.inputs[1]])
      [] nd.op = "Sum"      -> ReduceSumT(table[nd.inputs[1]])

RECURSIVE ForwardPass(_, _, _, _, _, _)
\* evaluate the needed tensors in creation order, from position k on;
\* table: node name -> value
ForwardPass(gr, vals, feed, need, k, table) ==
    IF k > Len(gr.order) THEN table
    ELSE LET n  == gr.order[k]
             nd == gr.nodes[n]
         IN ForwardPass(gr, vals, feed, need, k + 1,
                IF n \in need /\ ~IsOp(nd)
                THEN table @@ (n :> EvalNode(nd, n, vals, feed, table))
                ELSE table)

\* ---- gradients (optimizer.minimize): reverse-mode differentiation ----
\* vector-Jacobian product of op nd with respect to its k-th input, g being
\* the gradient of the loss with respect to nd's output
VJP(nd, k, table, g) ==
    LET x == table[nd.inputs[k]]
    IN CASE nd.op = "Sum"     -> Tensor(x.shape, [e \in DOMAIN x.data |-> g.data[1]])
         [] nd.op = "Square"  -> Tensor(x.shape, [e \in DOMAIN x.data |-> Mul(2 * x.data[e], g.data[e])])
         [] nd.op = "Sub"     -> IF k = 1 THEN g ELSE NegT(g)
         [] nd.op = "Add"     -> g
         [] nd.op = "Relu"    -> Tensor(x.shape, [e \in DOMAIN x.data |-> IF x.data[e] > 0 THEN g.data[e] ELSE 0])
         [] nd.op = "Reshape" -> Tensor(x.shape, g.data)
         [] nd.op = "MatMul"  ->
               IF k = 1
               THEN MatMulT(g, TransposeT(table[nd.inputs[2]]))
               ELSE MatMulT(TransposeT(table[nd.inputs[1]]), g)

\* add gradient contribution v for node n
Accumulate(grads, n, v) ==
    IF n \in DOMAIN grads
    THEN [grads EXCEPT ![n] = AddT(@, v)]
    ELSE grads @@ (n :> v)

RECURSIVE Trainable(_, _, _, _)
\* the nodes computed from one of the variables wrt, by a forward sweep
Trainable(gr, wrt, k, acc) ==
    IF k > Len(gr.order) THEN acc
    ELSE LET n == gr.order[k]
         IN Trainable(gr, wrt, k + 1,
                IF n \in wrt \/ Range(gr.nodes[n].inputs) \cap acc # {}
                THEN acc \cup {n} ELSE acc)

RECURSIVE BackwardPass(_, _, _, _, _)
\* sweep the creation order backwards from position k, pushing each node's
\* gradient to those of its inputs that lead to a variable; grads: node -> d loss / d node
BackwardPass(gr, table, through, k, grads) ==
    IF k = 0 THEN grads
    ELSE LET n  == gr.order[k]
             nd == gr.nodes[n]
             into(j, acc) ==
                 IF j \in DOMAIN nd.inputs /\ nd.inputs[j] \in through
                 THEN Accumulate(acc, nd.inputs[j], VJP(nd, j, table, grads[n]))
                 ELSE acc
         IN BackwardPass(gr, table, through, k - 1,
                IF n \in DOMAIN grads THEN into(2, into(1, grads)) ELSE grads)

\* d loss / d v for every variable v of wrt
Gradients(gr, table, loss, wrt) ==
    BackwardPass(gr, table, Trainable(gr, wrt, 1, {}), Len(gr.order),
                 (loss :> Tensor(<<>>, <<ToFloat(1)>>)))

\* var <- var - learning_rate * gradient
ApplyGradientDescent(var, grad, lr, den) ==
    Tensor(var.shape, [e \in DOMAIN var.data |-> var.data[e] - Round(lr * grad.data[e], den)])

\* the variables' values after op n has run
StepVariables(gr, vals, inits, table, n) ==
    LET nd == gr.nodes[n]
    IN CASE nd.op = "InitVariables" ->
               [v \in DOMAIN vals \cup Range(nd.targets) |->
                   IF v \in Range(nd.targets) THEN inits[v] ELSE vals[v]]
         [] nd.op = "ApplyGradientDescent" ->
               LET grads == Gradients(gr, table, nd.inputs[1], Range(nd.targets))
               IN [v \in DOMAIN vals |->
                     IF v \in Range(nd.targets)
                     THEN ApplyGradientDescent(vals[v], grads[v], nd.attr[1], nd.attr[2])
                     ELSE vals[v]]
         [] OTHER -> vals

RECURSIVE StepAll(_, _, _, _, _)
StepAll(gr, vals, inits, table, fetches) ==
    IF fetches = <<>> THEN vals
    ELSE StepAll(gr, StepVariables(gr, vals, inits, table, Head(fetches)),
                 inits, table, Tail(fetches))

\* the error the framework raises for this run, "none" when it succeeds
RunError(gr, vals, fetches, feed) ==
    IF ~(Range(fetches) \subseteq DOMAIN gr.nodes) \/ ~(DOMAIN feed \subseteq DOMAIN gr.nodes)
    THEN "not_in_graph"
    ELSE IF \E p \in DOMAIN feed : ~ShapeFits(feed[p].shape, gr.nodes[p].shape)
    THEN "shape"
    ELSE IF ~(PlaceholdersOf(gr, fetches) \subseteq DOMAIN feed)
    THEN "missing_feed"
    ELSE IF ~(VariablesOf(gr, fetches) \subseteq DOMAIN vals)
    THEN "uninitialized"
    ELSE "none"

\* session.run(fetches, feed_dict=feed): the error, the variables afterwards
\* and the fetched values (tensors are evaluated on the values before any
\* update of the same run)
SessionRun(gr, vals, inits, fetches, feed) ==
    LET e == RunError(gr, vals, fetches, feed)
        table == ForwardPass(gr, vals, feed, Needed(gr, fetches), 1, <<>>)
    IN IF e # "none"
       THEN [err |-> e, vals |-> vals, out |-> <<>>]
       ELSE [err |-> "none",
             vals |-> StepAll(gr, vals, inits, table, fetches),
             out |-> [k \in DOMAIN fetches |->
                        IF IsOp(gr.nodes[fetches[k]]) THEN NoValue ELSE table[fetches[k]]]]

\* ------------------------------------------------------- numpy helpers ----
\* np.random: a global generator; every draw advances its state and the
\* number drawn is determined by the state (a small linear congruential
\* generator stands for numpy's)
NextRng(r) == (27 * r + 11) % 101
RngOutput(r) == (r % (2 * MaxDraw + 1)) - MaxDraw

RECURSIVE RandnData(_, _)
\* n numbers drawn in a row starting from generator state r
RandnData(r, n) ==
    IF n = 0 THEN <<>>
    ELSE <<RngOutput(NextRng(r))>> \o RandnData(NextRng(r), n - 1)

RECURSIVE Advance(_, _)
\* the generator state after n draws
Advance(r, n) == IF n = 0 THEN r ELSE Advance(NextRng(r), n - 1)

\* np.random.randn(d1, ..., dk): an array of the given shape
Randn(r, shape) == Tensor(shape, RandnData(r, Prod(shape)))

\* np.append(v, 0)
NpAppendZero(v) == Append(v, 0)
\* slip: the maximum left out
NpMaximumZeroDropped(v) == v

\* np.maximum(0, v)
NpMaximumZero(v) == [k \in DOMAIN v |-> Max(0, v[k])]
\* v * [1, 0, 0]: elementwise product with a list of Python ints
Mask == <<1, 0, 0>>
NpTimes(v, m) == [k \in DOMAIN v |-> v[k] * m[k]]
\* out_vec = np.maximum(0, np.append(in_vec, 0))*[1, 0, 0]
OutVec(v) == NpTimes(NpMaximumZero(NpAppendZero(v)), Mask)

\* np.asarray([1, 2])
ForwardInput == <<ToFloat(1), ToFloat(2)>>

\* ---------------------------------------------------------------- state ----
VARIABLES
    nb,                 \* which copy of the notebook is executed
    rng,                \* state of numpy's global random generator
    pc,                 \* the next cell / statement to execute
    graph,              \* the default graph: [nodes: name -> Node, order: names as created]
    initial_value,      \* initial values handed to tf.Variable (numpy arrays)
    n_sessions,         \* number of tf.Session() objects created
    var_value,          \* the session's variables: name -> value, initialized ones only
    relu_vector_value,  \* Python name relu_vector_value (a list), <<>> while unbound
    i,                  \* position of the training loop in range(N)
    in_vec, out_vec,    \* Python names of the loop body, <<>> while unbound
    loss_value,         \* Python name loss_value, NoValue while unbound
    n_runs,             \* number of session.run calls issued so far
    n_steps,            \* number of times gradient_descent_step has executed
    printed,            \* iteration numbers printed by the loop, in a row: count and last
    matrix_value, vector_value,  \* Python names of the fetch cell
    last_fetches,       \* fetches of the latest session.run
    last_feed,          \* feed_dict of the latest session.run: placeholder -> shape of the array fed
    alternative_value,  \* value of alternative_relu_vector when evaluated
    err                 \* the exception that stopped the execution, "none" if none

vars == <<nb, rng, pc, graph, initial_value, n_sessions, var_value, relu_vector_value, i,
          in_vec, out_vec, loss_value, n_runs, n_steps, printed, matrix_value,
          vector_value, last_fetches, last_feed, alternative_value, err>>

EmptyMap == <<>>

Init ==
    /\ nb \in Notebooks
    /\ rng \in 0..MaxSeed
    /\ pc = "import"
    /\ graph = [nodes |-> EmptyMap, order |-> <<>>]
    /\ initial_value = EmptyMap
    /\ n_sessions = 0
    /\ var_value = EmptyMap
    /\ relu_vector_value = <<>>
    /\ i = 0
    /\ in_vec = <<>>
    /\ out_vec = <<>>
    /\ loss_value = NoValue
    /\ n_runs = 0
    /\ n_steps = 0
    /\ printed = [count |-> 0, last |-> 0 - 1, in_order |-> TRUE]
    /\ matrix_value = NoValue
    /\ vector_value = NoValue
    /\ last_fetches = <<>>
    /\ last_feed = EmptyMap
    /\ alternative_value = NoValue
    /\ err = "none"

\* a cell that only adds ops to the graph
GraphCell(from, to, g) ==
    /\ pc = from
    /\ err = "none"
    /\ graph' = Built(g)
    /\ err' = IF g.ok THEN "none" ELSE "shape"
    /\ pc' = IF g.ok THEN to ELSE pc

\* bookkeeping of one session.run call
Ran(fetches, feed, r, to) ==
    /\ n_runs' = n_runs + 1
    /\ last_fetches' = fetches
    /\ last_feed' = [p \in DOMAIN feed |-> feed[p].shape]
    /\ var_value' = r.vals
    /\ err' = r.err
    /\ pc' = IF r.err = "none" THEN to ELSE pc

\* import numpy as np; import tensorflow as tf
Import ==
    /\ pc = "import"
    /\ err = "none"
    /\ pc' = "constant_scalar"
    /\ UNCHANGED <<nb, rng, graph, initial_value, n_sessions, var_value, relu_vector_value, i,
                   in_vec, out_vec, loss_value, n_runs, n_steps, printed, matrix_value,
                   vector_value, last_fetches, last_feed, alternative_value, err>>

ConstantScalarCell ==
    /\ GraphCell("constant_scalar", "constant_matrix", BuildConstantScalar(Start(graph)))
    /\ UNCHANGED <<nb, rng, initial_value, n_sessions, var_value, relu_vector_value, i,
                   in_vec, out_vec, loss_value, n_runs, n_steps, printed, matrix_value,
                   vector_value, last_fetches, last_feed, alternative_value>>

ConstantMatrixCell ==
    /\ GraphCell("constant_matrix", "variables",
                 BuildConstantMatrix(Start(graph), Randn(rng, <<Rows, Cols>>)))
    /\ rng' = Advance(rng, Rows * Cols)
    /\ UNCHANGED <<nb, initial_value, n_sessions, var_value, relu_vector_value, i,
                   in_vec, out_vec, loss_value, n_runs, n_steps, printed, matrix_value,
                   vector_value, last_fetches, last_feed, alternative_value>>

\* the numpy arrays np.random.randn(3,2) and np.random.randn(3), drawn in this order
InitialValues(r) ==
    ("variable_matrix" :> Randn(r, <<Rows, Cols>>))
    @@ ("variable_vector" :> Randn(Advance(r, Rows * Cols), <<Rows>>))

VariablesCell ==
    /\ GraphCell("variables", "layer", BuildVariables(Start(graph)))
    /\ initial_value' = InitialValues(rng)
    /\ rng' = Advance(rng, Rows * Cols + Rows)
    /\ UNCHANGED <<nb, n_sessions, var_value, relu_vector_value, i,
                   in_vec, out_vec, loss_value, n_runs, n_steps, printed, matrix_value,
                   vector_value, last_fetches, last_feed, alternative_value>>

LayerCell ==
    /\ GraphCell("layer", "session", BuildLayer(Start(graph)))
    /\ UNCHANGED <<nb, rng, initial_value, n_sessions, var_value, relu_vector_value, i,
                   in_vec, out_vec, loss_value, n_runs, n_steps, printed, matrix_value,
                   vector_value, last_fetches, last_feed, alternative_value>>

\* session = tf.Session()
NewSession ==
    /\ pc = "session"
    /\ err = "none"
    /\ n_sessions' = n_sessions + 1
    /\ var_value' = EmptyMap
    /\ pc' = "initialize"
    /\ UNCHANGED <<nb, rng, graph, initial_value, relu_vector_value, i,
                   in_vec, out_vec, loss_value, n_runs, n_steps, printed, matrix_value,
                   vector_value, last_fetches, last_feed, alternative_value, err>>

\* session.run(tf.global_variables_initializer())
RunInitializer ==
    /\ pc = "initialize"
    /\ err = "none"
    /\ \E g \in {BuildInitializer(Start(graph))} :
       \E r \in {SessionRun(Built(g), var_value, initial_value, <<"init">>, EmptyMap)} :
          /\ graph' = Built(g)
          /\ Ran(<<"init">>, EmptyMap, r, "forward")
    /\ UNCHANGED <<nb, rng, initial_value, n_sessions, relu_vector_value, i,
                   in_vec, out_vec, loss_value, n_steps, printed, matrix_value,
                   vector_value, alternative_value>>

ForwardFetches == <<"relu_vector">>
ForwardFeed == ("placeholder_input" :> Vec(ForwardInput))

\* relu_vector_value = session.run([relu_vector], feed_dict={placeholder_input: np.asarray([1, 2])})
RunForward ==
    /\ pc = "forward"
    /\ err = "none"
    /\ \E r \in {SessionRun(graph, var_value, initial_value, ForwardFetches, ForwardFeed)} :
          /\ Ran(ForwardFetches, ForwardFeed, r, "training_graph")
          /\ relu_vector_value' = IF r.err = "none" THEN r.out ELSE relu_vector_value
    /\ UNCHANGED <<nb, rng, graph, initial_value, n_sessions, i,
                   in_vec, out_vec, loss_value, n_steps, printed, matrix_value,
                   vector_value, alternative_value>>

TrainingGraphCell ==
    /\ GraphCell("training_graph", "train_loop", BuildTraining(Start(graph), LearningRate(nb)))
    /\ UNCHANGED <<nb, rng, initial_value, n_sessions, var_value, relu_vector_value, i,
                   in_vec, out_vec, loss_value, n_runs, n_steps, printed, matrix_value,
                   vector_value, last_fetches, last_feed, alternative_value>>

\* slip: the loop stops one iteration early
LoopDoneOffByOne(n, k) == k >= RangeN(n) - 1

\* for i in range(N): has the loop run out of iterations?
LoopDone(n, k) == k >= RangeN(n)

TrainFetches == <<"gradient_descent_step", "loss">>
\* slip: the desired output is not fed
TrainFeedInputOnly(x, y) == ("placeholder_input" :> Vec(x))

TrainFeed(x, y) == ("placeholder_input" :> Vec(x)) @@ ("placeholder_output" :> Vec(y))

\* one iteration of the training loop
TrainIteration ==
    /\ pc = "train_loop"
    /\ err = "none"
    /\ ~LoopDone(nb, i)
    /\ \E x \in {Randn(rng, <<Cols>>).data} :
       \E y \in {OutVec(x)} :
       \E r \in {SessionRun(graph, var_value, initial_value, TrainFetches, TrainFeed(x, y))} :
            /\ in_vec' = x
            /\ out_vec' = y
            /\ Ran(TrainFetches, TrainFeed(x, y), r, "train_loop")
            /\ IF r.err = "none"
               THEN /\ loss_value' = r.out[2]
                    /\ n_steps' = n_steps + 1
                    /\ printed' = [count |-> printed.count + 1, last |-> i,
                                   in_order |-> printed.in_order /\ i = printed.last + 1]
                    /\ i' = i + 1
               ELSE UNCHANGED <<loss_value, n_steps, printed, i>>
    /\ rng' = Advance(rng, Cols)
    /\ UNCHANGED <<nb, graph, initial_value, n_sessions, relu_vector_value,
                   matrix_value, vector_value, alternative_value>>

VariableFetches == <<"variable_matrix", "variable_vector">>

\* matrix_value, vector_value = session.run([variable_matrix, variable_vector])
FetchVariables ==
    /\ pc = "train_loop"
    /\ err = "none"
    /\ LoopDone(nb, i)
    /\ \E r \in {SessionRun(graph, var_value, initial_value, VariableFetches, EmptyMap)} :
          /\ Ran(VariableFetches, EmptyMap, r, "batched")
          /\ IF r.err = "none"
             THEN matrix_value' = r.out[1] /\ vector_value' = r.out[2]
             ELSE UNCHANGED <<matrix_value, vector_value>>
    /\ UNCHANGED <<nb, rng, graph, initial_value, n_sessions, relu_vector_value, i,
                   in_vec, out_vec, loss_value, n_steps, printed, alternative_value>>

BatchedCell ==
    /\ GraphCell("batched", "dense", BuildBatched(Start(graph)))
    /\ UNCHANGED <<nb, rng, initial_value, n_sessions, var_value, relu_vector_value, i,
                   in_vec, out_vec, loss_value, n_runs, n_steps, printed, matrix_value,
                   vector_value, last_fetches, last_feed, alternative_value>>

DenseCell ==
    /\ GraphCell("dense", "done", BuildDense(Start(graph)))
    /\ UNCHANGED <<nb, rng, initial_value, n_sessions, var_value, relu_vector_value, i,
                   in_vec, out_vec, loss_value, n_runs, n_steps, printed, matrix_value,
                   vector_value, last_fetches, last_feed, alternative_value>>

\* ---- the two definitions of the layer, applied to arbitrary values ----
\* the graph once every cell has run
FullGraph(lr) ==
    Built(BuildDense(BuildBatched(BuildTraining(BuildInitializer(BuildLayer(
        BuildVariables(BuildConstantMatrix(BuildConstantScalar(
            Start([nodes |-> EmptyMap, order |-> <<>>])), Randn(0, <<Rows, Cols>>))))),
        lr))))

RECURSIVE Vectors(_, _)
\* integer vectors of length n with L1 norm at most budget
Vectors(n, budget) ==
    IF n = 0 THEN {<<>>}
    ELSE UNION {{<<v>> \o t : t \in Vectors(n - 1, budget - (IF v < 0 THEN 0 - v ELSE v))} :
                  v \in (0 - budget)..budget}

LayerSize == Rows * Cols + Rows
\* values of variable_matrix, variable_vector, dense/kernel and dense/bias
LayerDraws == Vectors(2 * LayerSize, MaxNorm)
LayerValues(d) ==
    ("variable_matrix" :> Tensor(<<Rows, Cols>>, SubSeq(d, 1, Rows * Cols)))
    @@ ("variable_vector" :> Vec(SubSeq(d, Rows * Cols + 1, LayerSize)))
    @@ ("dense/kernel" :> Tensor(<<Cols, DenseUnits>>, SubSeq(d, LayerSize + 1, LayerSize + Rows * Cols)))
    @@ ("dense/bias" :> Vec(SubSeq(d, LayerSize + Rows * Cols + 1, 2 * LayerSize)))
\* values fed for placeholder_input
LayerInputs == Vectors(Cols, MaxInput)

InitLayers ==
    /\ nb \in Notebooks
    /\ rng = 0
    /\ pc = "apply"
    /\ graph = FullGraph(LearningRate(nb))
    /\ initial_value = EmptyMap
    /\ n_sessions = 1
    /\ var_value \in {LayerValues(d) : d \in LayerDraws}
    /\ relu_vector_value = <<>>
    /\ i = 0
    /\ in_vec = <<>>
    /\ out_vec = <<>>
    /\ loss_value = NoValue
    /\ n_runs = 0
    /\ n_steps = 0
    /\ printed = [count |-> 0, last |-> 0 - 1, in_order |-> TRUE]
    /\ matrix_value = NoValue
    /\ vector_value = NoValue
    /\ last_fetches = <<>>
    /\ last_feed = EmptyMap
    /\ alternative_value = NoValue
    /\ err = "none"

LayerFetches == <<"relu_vector", "alternative_relu_vector">>
LayerFeed(x) == ("placeholder_input" :> Vec(x))

\* session.run([relu_vector, alternative_relu_vector], feed_dict={placeholder_input: x})
ApplyLayers ==
    /\ pc = "apply"
    /\ err = "none"
    /\ \E x \in LayerInputs :
       \E r \in {SessionRun(graph, var_value, initial_value, LayerFetches, LayerFeed(x))} :
          /\ in_vec' = x
          /\ Ran(LayerFetches, LayerFeed(x), r, "applied")
          /\ IF r.err = "none"
             THEN relu_vector_value' = <<r.out[1]>> /\ alternative_value' = r.out[2]
             ELSE UNCHANGED <<relu_vector_value, alternative_value>>
    /\ UNCHANGED <<nb, rng, graph, initial_value, n_sessions, i, out_vec, loss_value,
                   n_steps, printed, matrix_value, vector_value>>

SpecLayers == InitLayers /\ [][ApplyLayers]_vars

Next ==
    \/ Import
    \/ ConstantScalarCell
    \/ ConstantMatrixCell
    \/ VariablesCell
    \/ LayerCell
    \/ NewSession
    \/ RunInitializer
    \/ RunForward
    \/ TrainingGraphCell
    \/ TrainIteration
    \/ FetchVariables
    \/ BatchedCell
    \/ DenseCell

Spec == Init /\ [][Next]_vars


\* ------------------------------------------------------------- claims ----
InputAndOutput == {"placeholder_input", "placeholder_output"}
BothVariables == {"variable_matrix", "variable_vector"}
TotalRuns == RangeN(nb) + 3
\* entry (r, c) of a matrix value
At(t, r, c) == t.data[(r - 1) * t.shape[2] + c]

\* C1: every session.run feeds every placeholder its fetches depend on: the
\* forward run of relu_vector feeds placeholder_input, each training run feeds
\* placeholder_input and placeholder_output, the fetch of the two variables
\* depends on no placeholder and is given no feed; no run fails for a missing feed.
C1_FeedsCoverFetches ==
    /\ err # "missing_feed"
    /\ (err = "none" /\ n_runs > 0) =>
          /\ PlaceholdersOf(graph, last_fetches) \subseteq DOMAIN last_feed
          /\ last_fetches = <<"relu_vector">> =>
                /\ PlaceholdersOf(graph, last_fetches) = {"placeholder_input"}
                /\ DOMAIN last_feed = {"placeholder_input"}
          /\ last_fetches = <<"gradient_descent_step", "loss">> =>
                /\ PlaceholdersOf(graph, last_fetches) = InputAndOutput
                /\ DOMAIN last_feed = InputAndOutput
          /\ last_fetches = <<"variable_matrix", "variable_vector">> =>
                /\ PlaceholdersOf(graph, last_fetches) = {}
                /\ DOMAIN last_feed = {}

C1_Witness ==
    /\ pc = "batched"
    /\ err = "none"
    /\ n_runs = TotalRuns
    /\ last_fetches = <<"variable_matrix", "variable_vector">>
    /\ DOMAIN last_feed = {}

\* C2: the first run on the one session is the initializer, it initializes
\* variable_matrix and variable_vector (both created before it), and every
\* later run reads or updates initialized variables only; no run fails for an
\* uninitialized variable.
C2_InitializedBeforeUse ==
    /\ err # "uninitialized"
    /\ n_runs = 0 => var_value = EmptyMap
    /\ (err = "none" /\ n_runs = 1) => last_fetches = <<"init">>
    /\ (err = "none" /\ n_runs >= 1) =>
          /\ n_sessions = 1
          /\ "init" \in DOMAIN graph.nodes
          /\ Range(graph.nodes["init"].targets) = BothVariables
          /\ DOMAIN var_value = BothVariables
          /\ VariablesOf(graph, last_fetches) \subseteq DOMAIN var_value
    /\ (err = "none" /\ n_runs >= 2) => VariablesOf(graph, last_fetches) = BothVariables

C2_Witness ==
    /\ pc = "train_loop"
    /\ err = "none"
    /\ n_steps >= 2
    /\ var_value # initial_value
    /\ DOMAIN var_value = BothVariables

\* C3: the target computed in the training loop is (max(0, x1), 0, 0) for the
\* drawn input (x1, x2): three components, independent of x2.
C3_TargetIsReluOfFirst ==
    out_vec # <<>> =>
        /\ Len(in_vec) = 2
        /\ Len(out_vec) = 3
        /\ out_vec = <<(IF in_vec[1] > 0 THEN in_vec[1] ELSE 0), 0, 0>>

C3_Witness ==
    /\ out_vec # <<>>
    /\ in_vec[1] < 0
    /\ in_vec[2] > 0
    /\ out_vec = <<0, 0, 0>>

\* relu(W x + b), component by component
LayerClosedForm(W, b, x) ==
    [k \in 1..3 |-> Max(0, Mul(At(W, k, 1), x[1]) + Mul(At(W, k, 2), x[2]) + b.data[k])]
\* sum of the squared differences
LossClosedForm(r, y) ==
    Mul(r[1] - y[1], r[1] - y[1]) + Mul(r[2] - y[2], r[2] - y[2])
    + Mul(r[3] - y[3], r[3] - y[3])

C4_ForwardStep ==
    (n_runs' = n_runs + 1 /\ err' = "none" /\ last_fetches' = <<"relu_vector">>) =>
        /\ Len(relu_vector_value') = 1
        /\ relu_vector_value'[1].shape = <<3>>
        /\ relu_vector_value'[1].data =
              LayerClosedForm(var_value["variable_matrix"], var_value["variable_vector"],
                              <<Scale, 2 * Scale>>)
        /\ \A k \in 1..3 : relu_vector_value'[1].data[k] >= 0

C4_TrainStep ==
    (n_runs' = n_runs + 1 /\ err' = "none"
        /\ last_fetches' = <<"gradient_descent_step", "loss">>) =>
        /\ loss_value'.shape = <<>>
        /\ loss_value'.data =
              <<LossClosedForm(
                    LayerClosedForm(var_value["variable_matrix"], var_value["variable_vector"],
                                    in_vec'),
                    out_vec')>>
        /\ loss_value'.data[1] >= 0

\* C4: the value a run returns for relu_vector is relu(W x + b) componentwise
\* for the variables' current values and the fed input, so every component is
\* >= 0; the loss a training run returns is the sum of the squared differences
\* to the fed target, so it is >= 0.
C4_LayerIsReluAffine == [][C4_ForwardStep /\ C4_TrainStep]_vars

C4_Witness ==
    /\ pc = "train_loop"
    /\ err = "none"
    /\ loss_value # NoValue
    /\ loss_value.data[1] > 0
    /\ \E k \in 1..3 : relu_vector_value[1].data[k] > 0
    /\ \E k \in 1..3 :
          /\ relu_vector_value[1].data[k] = 0
          /\ At(initial_value["variable_matrix"], k, 1) * 1
                + At(initial_value["variable_matrix"], k, 2) * 2
                + initial_value["variable_vector"].data[k] < 0

ExpectedShapes ==
    ("placeholder_input" :> <<2>>) @@ ("reshape_input" :> <<2, 1>>)
    @@ ("variable_matrix" :> <<3, 2>>) @@ ("matmul" :> <<3, 1>>)
    @@ ("matrix_product" :> <<3>>) @@ ("variable_vector" :> <<3>>)
    @@ ("vector_sum" :> <<3>>) @@ ("relu_vector" :> <<3>>)
    @@ ("placeholder_output" :> <<3>>)

\* C5: no shape mismatch: the nodes of the layer have the shapes (2,), (2,1),
\* (3,1), (3,), each reshape keeps the number of elements, vector_sum and
\* relu_vector match variable_vector and placeholder_output, and every array
\* fed to a run has the declared shape of its placeholder.
C5_ShapesAgree ==
    /\ err # "shape"
    /\ err = "none" =>
          /\ \A n \in DOMAIN ExpectedShapes \cap DOMAIN graph.nodes :
                graph.nodes[n].shape = ExpectedShapes[n]
          /\ \A n \in {"reshape_input", "matrix_product"} \cap DOMAIN graph.nodes :
                Prod(graph.nodes[n].shape) = Prod(graph.nodes[graph.nodes[n].inputs[1]].shape)
          /\ \A p \in DOMAIN last_feed : last_feed[p] = graph.nodes[p].shape

C5_Witness ==
    /\ pc = "train_loop"
    /\ err = "none"
    /\ i >= 1
    /\ last_feed = ("placeholder_input" :> <<2>>) @@ ("placeholder_output" :> <<3>>)
    /\ graph.nodes["relu_vector"].shape = graph.nodes["placeholder_output"].shape

NoValueYet ==
    /\ var_value = EmptyMap
    /\ relu_vector_value = <<>>
    /\ loss_value = NoValue
    /\ matrix_value = NoValue
    /\ vector_value = NoValue
    /\ alternative_value = NoValue

C6_State ==
    /\ err # "not_in_graph"
    /\ n_sessions <= 1
    /\ n_sessions = 0 => (n_runs = 0 /\ NoValueYet)
    /\ n_runs > 0 => n_sessions = 1
    /\ pc = "done" => n_sessions = 1
    /\ err = "none" => Range(last_fetches) \subseteq DOMAIN graph.nodes

C6_Step ==
    /\ n_runs' = n_runs =>
          UNCHANGED <<var_value, relu_vector_value, loss_value, matrix_value,
                      vector_value, alternative_value>>
    /\ (n_runs' # n_runs /\ err' = "none") =>
          /\ n_runs' = n_runs + 1
          /\ n_sessions' = n_sessions
          /\ Range(last_fetches') \subseteq DOMAIN graph'.nodes
          /\ Range(last_fetches') \ {"init"} \subseteq DOMAIN graph.nodes

\* C6: one Session is created; no tensor has a value before it exists, and the
\* values (of variables and of fetched tensors) change only in steps that are
\* session.run calls on it; every fetched tensor or op is in the graph when it
\* is run.
C6_OneSessionComputes == []C6_State /\ [][C6_Step]_vars

C6_Witness ==
    /\ pc = "done"
    /\ err = "none"
    /\ n_sessions = 1
    /\ n_runs = TotalRuns
    /\ matrix_value # NoValue

C7_Counts ==
    /\ RangeN("part_000") = 150
    /\ RangeN("interactive") = 15
    /\ i <= RangeN(nb)
    /\ n_steps = i
    /\ printed.count = i
    /\ printed.last = i - 1
    /\ printed.in_order
    /\ pc = "train_loop" => n_runs = i + 2
    /\ matrix_value # NoValue =>
          /\ i = RangeN(nb)
          /\ n_runs = TotalRuns
          /\ matrix_value = var_value["variable_matrix"]
          /\ vector_value = var_value["variable_vector"]
    /\ pc \in {"batched", "dense", "done"} => matrix_value # NoValue

Statements ==
    <<"import", "constant_scalar", "constant_matrix", "variables", "layer", "session",
      "initialize", "forward", "training_graph", "train_loop", "batched", "dense", "done">>
\* how far the execution has come: statements passed plus loop iterations done
Progress == (CHOOSE k \in DOMAIN Statements : Statements[k] = pc) + i

\* C7: the training loop ends after exactly N iterations (150 / 15), numbered
\* 0..N-1 in increasing order, each with one session.run that executes
\* gradient_descent_step once and prints one loss; the variables are fetched
\* only after the loop.  Termination: every step advances the execution by
\* one, the execution never advances past Len(Statements) + N, and no
\* exception stops it.
C7_LoopTerminates ==
    /\ []C7_Counts
    /\ [](err = "none" /\ Progress <= Len(Statements) + RangeN(nb))
    /\ [][Progress' = Progress + 1]_vars

C7_Witness ==
    /\ pc = "done"
    /\ nb = "part_000"
    /\ n_steps = 150
    /\ printed = [count |-> 150, last |-> 149, in_order |-> TRUE]
    /\ matrix_value # initial_value["variable_matrix"]

SameWeights ==
    /\ var_value["dense/kernel"] = TransposeT(var_value["variable_matrix"])
    /\ var_value["dense/bias"] = var_value["variable_vector"]

\* relu(x K + c), component by component
DenseClosedForm(K, c, x) ==
    [k \in 1..3 |-> Max(0, Mul(x[1], At(K, 1, k)) + Mul(x[2], At(K, 2, k)) + c.data[k])]

\* C8: alternative_relu_vector is a layer of the same form as relu_vector,
\* relu of an affine map from 2 inputs to 3 outputs (kernel 2x3, bias 3); with
\* the same weights (kernel[j, k] = variable_matrix[k, j]) and the same bias,
\* both hold the same numbers for the same fed input, alternative_relu_vector
\* as one row of a (1, 3) tensor.
C8_DenseIsTheSameLayer ==
    (pc = "applied" /\ err = "none") =>
        /\ graph.nodes["dense/kernel"].shape = <<2, 3>>
        /\ graph.nodes["dense/bias"].shape = <<3>>
        /\ alternative_value.shape = <<1, 3>>
        /\ relu_vector_value[1].shape = <<3>>
        /\ alternative_value.data =
              DenseClosedForm(var_value["dense/kernel"], var_value["dense/bias"], in_vec)
        /\ SameWeights => alternative_value.data = relu_vector_value[1].data

C8_Witness ==
    /\ pc = "applied"
    /\ err = "none"
    /\ SameWeights
    /\ var_value["variable_matrix"].data # <<0, 0, 0, 0, 0, 0>>
    /\ \E k \in 1..3 : alternative_value.data[k] > 0
    /\ alternative_value.data = relu_vector_value[1].data
====
